---------------------------- MODULE Spec2Model ----------------------------
(***************************************************************************)
(* Model of server.go of movies-golang-bolt: the four query handlers       *)
(* (search, movie detail, vote, graph), the row decoding they use, the     *)
(* JSON they write, and parseLimit.                                        *)
(*                                                                         *)
(* The query engine (neo4j.ExecuteQuery) is an external collaborator: the  *)
(* model draws its answer from bounded sets of record sequences.           *)
(***************************************************************************)
EXTENDS Integers, Sequences, FiniteSets, TLC

\* ------------------------------------------------------------- bounds
\* Longest record sequence the engine returns.
MaxRows == 2
\* Longest list value (the cast column of /graph, the role column of /movie).
MaxList == 2
\* Longest value of the limit request parameter, in characters.
MaxLimitLen == 3
\* Largest properties-set counter of a write summary.
MaxProps == 2
\* Request slots of the server (goroutines serving a request at once).
MaxReqs == 2

Reqs == 1..MaxReqs

\* Sequences over S of length at most n.
RECURSIVE SeqUpTo(_, _)
SeqUpTo(S, n) ==
    IF n <= 0 THEN {<<>>}
    ELSE LET shorter == SeqUpTo(S, n - 1)
         IN  shorter \cup {Append(t, x) : t \in shorter, x \in S}

\* ------------------------------------------------- dynamically typed values
\* A column value of a record (Go: any): its dynamic type, then what it
\* holds as a string, as an int64 and as a list.
VNil == <<"nil", "", 0, <<>> >>
VString(x) == <<"string", x, 0, <<>> >>
VInt(k) == <<"int64", "", k, <<>> >>
VList(xs) == <<"[]any", "", 0, xs>>
TypeOf(v) == v[1]
AsString(v) == v[2]
AsInt(v) == v[3]
AsList(v) == v[4]

\* record.Get(key): the raw value, and whether the record has the column.
RecordGet(record, key) ==
    IF key \in DOMAIN record
    THEN [value |-> record[key], found |-> TRUE]
    ELSE [value |-> VNil, found |-> FALSE]

\* neo4j.GetRecordValue[T](record, key), first result: the value when the
\* column holds a T, the zero value of T when the column is missing, nil or
\* of another type (the callers drop the isNil flag and the error).
GetRecordValue(T, record, key) ==
    LET raw == RecordGet(record, key)
    IN  IF raw.found /\ TypeOf(raw.value) = T
        THEN raw.value
        ELSE CASE T = "string" -> VString("")
               [] T = "int64" -> VInt(0)
               [] OTHER -> VList(<<>>)

\* ------------------------------------------------------------ Go structs
ZeroMovie == [Released |-> 0, Title |-> "", Tagline |-> "", Votes |-> 0, Cast |-> <<>>]
ZeroD3Response == [Nodes |-> <<>>, Links |-> <<>>]
ZeroVote == [Updates |-> 0]
\* Role <<>> is the nil slice: toStringSlice never returns an empty non-nil one.
Person(name, job, role) == [Job |-> job, Role |-> role, Name |-> name]
Node(title, label) == [Title |-> title, Label |-> label]
\* Indices are Go's, starting at 0.
Link(source, target) == [Source |-> source, Target |-> target]

\* ------------------------------------------------------------------ JSON
\* encoding/json on the structs of lines 19-54. The strings of the model
\* hold no character that JSON escapes.
RECURSIVE JoinComma(_)
JoinComma(ss) ==
    IF ss = <<>> THEN ""
    ELSE IF Len(ss) = 1 THEN ss[1]
    ELSE ss[1] \o "," \o JoinComma(Tail(ss))

Quote(s) == "\"" \o s \o "\""
JsonArray(ss) == "[" \o JoinComma(ss) \o "]"
JsonObject(ss) == "{" \o JoinComma(ss) \o "}"
JsonField(key, text) == Quote(key) \o ":" \o text

\* []string: a nil slice is null.
JsonStrings(ss) ==
    IF ss = <<>> THEN "null"
    ELSE JsonArray([k \in 1..Len(ss) |-> Quote(ss[k])])

JsonPerson(p) ==
    JsonObject(<<JsonField("job", Quote(p.Job)),
                 JsonField("role", JsonStrings(p.Role)),
                 JsonField("name", Quote(p.Name))>>)

\* Movie: every field but released is omitempty.
JsonMovie(m) ==
    JsonObject(
        <<JsonField("released", ToString(m.Released))>>
        \o (IF m.Title = "" THEN <<>> ELSE <<JsonField("title", Quote(m.Title))>>)
        \o (IF m.Tagline = "" THEN <<>> ELSE <<JsonField("tagline", Quote(m.Tagline))>>)
        \o (IF m.Votes = 0 THEN <<>> ELSE <<JsonField("votes", ToString(m.Votes))>>)
        \o (IF m.Cast = <<>> THEN <<>>
            ELSE <<JsonField("cast",
                     JsonArray([k \in 1..Len(m.Cast) |-> JsonPerson(m.Cast[k])]))>>))

\* []MovieResult: Movie is embedded under the key movie.
JsonMovieResults(ms) ==
    JsonArray([k \in 1..Len(ms) |-> JsonObject(<<JsonField("movie", JsonMovie(ms[k]))>>)])

JsonVote(v) == JsonObject(<<JsonField("updates", ToString(v.Updates))>>)

JsonNode(nd) ==
    JsonObject(<<JsonField("title", Quote(nd.Title)), JsonField("label", Quote(nd.Label))>>)

JsonLink(lk) ==
    JsonObject(<<JsonField("source", ToString(lk.Source)),
                 JsonField("target", ToString(lk.Target))>>)

\* D3Response: nil slices are null.
JsonD3Response(d) ==
    JsonObject(
        <<JsonField("nodes",
              IF d.Nodes = <<>> THEN "null"
              ELSE JsonArray([k \in 1..Len(d.Nodes) |-> JsonNode(d.Nodes[k])])),
          JsonField("links",
              IF d.Links = <<>> THEN "null"
              ELSE JsonArray([k \in 1..Len(d.Links) |-> JsonLink(d.Links[k])]))>>)

\* json.NewEncoder(w).Encode(v) writes the value and a newline.
Encode(text) == text \o "\n"

\* ------------------------------------------------------------ parseLimit
\* A request parameter value is a sequence of one-character strings.
Digit == {"0", "1", "2", "3", "4", "5", "6", "7", "8", "9"}
DigitVal(ch) ==
    CASE ch = "0" -> 0 [] ch = "1" -> 1 [] ch = "2" -> 2 [] ch = "3" -> 3
      [] ch = "4" -> 4 [] ch = "5" -> 5 [] ch = "6" -> 6 [] ch = "7" -> 7
      [] ch = "8" -> 8 [] OTHER -> 9

RECURSIVE StripZeros(_)
StripZeros(ds) ==
    IF Len(ds) > 1 /\ ds[1] = "0" THEN StripZeros(Tail(ds)) ELSE ds

RECURSIVE DigitsLess(_, _)
\* ds < es for digit sequences of the same length.
DigitsLess(ds, es) ==
    /\ ds # <<>>
    /\ \/ DigitVal(ds[1]) < DigitVal(es[1])
       \/ ds[1] = es[1] /\ DigitsLess(Tail(ds), Tail(es))

\* 2^63, the first magnitude a 64-bit int cannot hold (2^63 itself is held
\* when negative).
IntLimitDigits ==
    <<"9","2","2","3","3","7","2","0","3","6","8","5","4","7","7","5","8","0","8">>

\* The magnitude ds overflows int: above 2^63 - 1, or above 2^63 when negative.
OutOfRange(ds, neg) ==
    LET m == StripZeros(ds)
    IN  \/ Len(m) > Len(IntLimitDigits)
        \/ /\ Len(m) = Len(IntLimitDigits)
           /\ ~DigitsLess(m, IntLimitDigits)
           /\ ~(neg /\ m = IntLimitDigits)

RECURSIVE DigitsValue(_, _)
DigitsValue(ds, acc) ==
    IF ds = <<>> THEN acc ELSE DigitsValue(Tail(ds), acc * 10 + DigitVal(ds[1]))

\* strconv.Atoi(s): an optional sign, then decimal digits only, at least one,
\* in the range of int; [n, err]. n is meaningful when err is FALSE.
Atoi(s) ==
    LET signed == s # <<>> /\ s[1] \in {"-", "+"}
        ds == IF signed THEN Tail(s) ELSE s
        neg == signed /\ s[1] = "-"
    IN  IF ds = <<>> \/ (\E k \in 1..Len(ds) : ds[k] \notin Digit)
        THEN [n |-> 0, err |-> TRUE]
        ELSE IF OutOfRange(ds, neg)
        THEN [n |-> 0, err |-> TRUE]
        ELSE [n |-> IF neg THEN 0 - DigitsValue(StripZeros(ds), 0)
                    ELSE DigitsValue(StripZeros(ds), 0),
              err |-> FALSE]

DefaultLimit == 50

\* A faulty parseLimit: what Atoi returned, whether it failed or not.
parseLimitIgnoresError(limits) ==
    IF Len(limits) > 0 THEN Atoi(limits[1]).n ELSE DefaultLimit

\* parseLimit(req), limits being req.URL.Query()["limit"].
parseLimit(limits) ==
    IF Len(limits) > 0
    THEN LET parsed == Atoi(limits[1])
         IN  IF parsed.err THEN DefaultLimit ELSE parsed.n
    ELSE DefaultLimit

\* --------------------------------------------------------- toStringSlice
\* e.(string) of an element that is no string panics.
ToStringSlicePanics(slice) == \E k \in 1..Len(slice) : TypeOf(slice[k]) # "string"
\* A faulty conversion: the strings come out last first.
toStringSliceReversed(slice) ==
    [k \in 1..Len(slice) |-> AsString(slice[Len(slice) + 1 - k])]

toStringSlice(slice) == [k \in 1..Len(slice) |-> AsString(slice[k])]

\* ------------------------------------------------------ graph projection
\* Faulty scans: one that finds nothing, one that takes a node of any label.
FindActorNever(nodes, actor) == -1

FindActorAnyLabel(nodes, actor) ==
    LET hits == {k \in 1..Len(nodes) :
                    TypeOf(actor) = "string" /\ AsString(actor) = nodes[k].Title}
    IN  IF hits = {} THEN -1
        ELSE (CHOOSE k \in hits : \A h \in hits : k <= h) - 1

\* Lines 202-208: the scan for the actor's node; a 0-based index, or -1.
\* actor == node.Title compares an any with a string: equal only when the
\* any holds a string.
FindActor(nodes, actor) ==
    LET hits == {k \in 1..Len(nodes) :
                    /\ TypeOf(actor) = "string"
                    /\ AsString(actor) = nodes[k].Title
                    /\ nodes[k].Label = "actor"}
    IN  IF hits = {} THEN -1
        ELSE (CHOOSE k \in hits : \A h \in hits : k <= h) - 1

\* A faulty append: a movie already in the list is not appended again.
AppendMovieOnce(d, title) ==
    IF \E k \in 1..Len(d.Nodes) : d.Nodes[k] = Node(title, "movie")
    THEN d
    ELSE [d EXCEPT !.Nodes = Append(@, Node(title, "movie"))]

\* Line 199: the movie's node.
AppendMovie(d, title) == [d EXCEPT !.Nodes = Append(@, Node(title, "movie"))]

\* A faulty link: source and target exchanged.
LinkActorSwapped(d, idx, actor, movIdx) ==
    IF idx = -1
    THEN [Nodes |-> Append(d.Nodes, Node(AsString(actor), "actor")),
          Links |-> Append(d.Links, Link(movIdx, Len(d.Nodes)))]
    ELSE [d EXCEPT !.Links = Append(@, Link(movIdx, idx))]

\* A faulty append: the new actor's node is put before the nodes there are.
LinkActorInsertsFirst(d, idx, actor, movIdx) ==
    IF idx = -1
    THEN [Nodes |-> <<Node(AsString(actor), "actor")>> \o d.Nodes,
          Links |-> Append(d.Links, Link(0, movIdx))]
    ELSE [d EXCEPT !.Links = Append(@, Link(idx, movIdx))]

\* Lines 209-214: a new actor node and its link, or a link to the node found.
LinkActor(d, idx, actor, movIdx) ==
    IF idx = -1
    THEN [Nodes |-> Append(d.Nodes, Node(AsString(actor), "actor")),
          Links |-> Append(d.Links, Link(Len(d.Nodes), movIdx))]
    ELSE [d EXCEPT !.Links = Append(@, Link(idx, movIdx))]

\* ------------------------------------------------------ search projection
\* A faulty projection: the votes are read from the released column.
SearchMovieVotesOfReleased(record) ==
    [Released |-> AsInt(GetRecordValue("int64", record, "released")),
     Title |-> AsString(GetRecordValue("string", record, "title")),
     Tagline |-> AsString(GetRecordValue("string", record, "tagline")),
     Votes |-> AsInt(GetRecordValue("int64", record, "released")),
     Cast |-> <<>>]

\* Lines 99-103: the MovieResult of one record.
SearchMovie(record) ==
    [Released |-> AsInt(GetRecordValue("int64", record, "released")),
     Title |-> AsString(GetRecordValue("string", record, "title")),
     Tagline |-> AsString(GetRecordValue("string", record, "tagline")),
     Votes |-> AsInt(GetRecordValue("int64", record, "votes")),
     Cast |-> <<>>]

\* ------------------------------------------------------ detail projection
\* Lines 137-145: the Person of one record; the role only of a list.
MoviePerson(record) ==
    LET name == AsString(GetRecordValue("string", record, "name"))
        job == AsString(GetRecordValue("string", record, "job"))
        role == RecordGet(record, "role").value
    IN  IF TypeOf(role) = "[]any"
        THEN Person(name, job, toStringSlice(AsList(role)))
        ELSE Person(name, job, <<>>)

MoviePersonPanics(record) ==
    LET role == RecordGet(record, "role").value
    IN  TypeOf(role) = "[]any" /\ ToStringSlicePanics(AsList(role))

\* Faulty loops: the Person is put before the cast, and the Person of a
\* record without a name is left out.
MovieRowPrepend(m, record) ==
    [m EXCEPT !.Title = AsString(GetRecordValue("string", record, "title")),
              !.Cast = <<MoviePerson(record)>> \o @]

MovieRowSkipsNoName(m, record) ==
    [m EXCEPT !.Title = AsString(GetRecordValue("string", record, "title")),
              !.Cast = IF TypeOf(RecordGet(record, "name").value) = "nil"
                       THEN @ ELSE Append(@, MoviePerson(record))]

\* Lines 135-145: the movie after one record; the Person is appended whatever
\* the record holds.
MovieRow(m, record) ==
    [m EXCEPT !.Title = AsString(GetRecordValue("string", record, "title")),
              !.Cast = Append(@, MoviePerson(record))]

\* ------------------------------------------------------- vote projection
\* A faulty count: the records of the result.
VoteUpdatesOfRecords(res) == Len(res.Records)

\* Line 170: result.Summary.Counters().PropertiesSet().
VoteUpdates(res) == res.PropertiesSet

\* ------------------------------------------------ the engine's answers
\* Records of the search query: title, tagline, votes, released.
SearchRecord(title, tagline, votes, released) ==
    [title |-> title, tagline |-> tagline, votes |-> votes, released |-> released]

\* Well-typed rows with and without tagline and votes, then rows with a nil
\* title, a nil released, and a tagline and votes of the wrong type.
SearchRows ==
    {SearchRecord(c[1], c[2], c[3], c[4]) : c \in
        ({VString("The Matrix")} \X {VString("Welcome to the Real World"), VNil}
            \X {VInt(5), VNil} \X {VInt(1999)})
        \cup {<<VString("The Matrix Reloaded"), VString("Free your mind"), VNil, VInt(2003)>>,
              <<VNil, VNil, VInt(5), VInt(1999)>>,
              <<VString("The Matrix"), VInt(1), VString("5"), VNil>>}}

\* Records of the detail query: title, name, job, role.
MovieRecord(title, name, job, role) ==
    [title |-> title, name |-> name, job |-> job, role |-> role]

RoleNames == {"Neo", "Thomas Anderson"}

\* An actor with every list of roles, a director (no roles), the row of a
\* movie without cast (nil name, job and role), then a role that is no list,
\* a role list holding a number, and a nil title with a job of the wrong type.
MovieRows ==
    {MovieRecord(c[1], c[2], c[3], c[4]) : c \in
        ({VString("The Matrix")} \X {VString("Keanu Reeves")} \X {VString("acted")}
            \X {VList(rs) : rs \in SeqUpTo({VString(x) : x \in RoleNames}, MaxList)})
        \cup {<<VString("The Matrix"), VString("Lana Wachowski"), VString("directed"), VNil>>,
              <<VString("The Matrix"), VNil, VNil, VNil>>,
              <<VString("The Matrix"), VString("Keanu Reeves"), VString("acted"), VString("Neo")>>,
              <<VString("The Matrix"), VString("Keanu Reeves"), VString("acted"), VList(<<VInt(7)>>)>>,
              <<VNil, VString("Keanu Reeves"), VInt(1), VList(<<VString("Neo")>>)>>}}

\* Records of the graph query: movie, cast.
GraphRecord(movie, cast) == [movie |-> movie, cast |-> cast]

MovieTitles == {"Top Gun", "Days of Thunder"}
\* An actor may be named as a movie is titled.
ActorNames == {"Tom Cruise", "Top Gun"}

\* Every movie with every cast of names, then a nil movie, a nil cast, a
\* cast that is no list, and casts holding a number or a nil.
GraphRows ==
    {GraphRecord(c[1], c[2]) : c \in
        ({VString(m) : m \in MovieTitles}
            \X {VList(as) : as \in SeqUpTo({VString(x) : x \in ActorNames}, MaxList)})
        \cup {<<VNil, VList(<<VString("Tom Cruise")>>)>>,
              <<VString("Top Gun"), VNil>>,
              <<VString("Top Gun"), VString("Tom Cruise")>>,
              <<VString("Top Gun"), VList(<<VInt(7)>>)>>,
              <<VString("Top Gun"), VList(<<VString("Tom Cruise"), VNil>>)>>}}

\* The record sequences the engine may answer each query with.
SearchAnswers == SeqUpTo(SearchRows, MaxRows)
MovieAnswers == SeqUpTo(MovieRows, MaxRows)
GraphAnswers == SeqUpTo(GraphRows, MaxRows)
\* The write of the vote query returns no record.
VoteAnswers == {<<>>}

\* What ExecuteQuery returns. The result is nil when the query failed; it is
\* not nil, with an error, when only closing the session failed.
NilResult == [isNil |-> TRUE, Records |-> <<>>, PropertiesSet |-> 0]
EagerResult(records, propertiesSet) ==
    [isNil |-> FALSE, Records |-> records, PropertiesSet |-> propertiesSet]

\* ------------------------------------------------------------- requests
\* q, title and limits are the request's parameters; the path's title is
\* already unescaped.
Request(endpoint, q, title, limits) ==
    [endpoint |-> endpoint, q |-> q, title |-> title, limits |-> limits]
NoRequest == Request("none", "", "", <<>>)

SearchTerms == {"", "matrix"}
PathTitles == {"The Matrix", ""}

LimitChars == {"0", "1", "7", "-", "+", "a", "b", "c"}
\* Past the range of int.
HugeLimit ==
    <<"9","2","2","3","3","7","2","0","3","6","8","5","4","7","7","5","8","0","8">>
\* Every query string: no limit, one value, or a second value after it.
AllLimits ==
    {SubSeq(<<s, <<"7">> >>, 1, k) :
        s \in SeqUpTo(LimitChars, MaxLimitLen) \cup {HugeLimit}, k \in 0..2}
\* The query strings of the requests whose rows are projected.
FewLimits == {<<>>, << <<"1">> >>, << <<"-", "1">> >>}

\* ----------------------------------------------------------------- state
VARIABLES
    pc,          \* where each request's handler is
    req,         \* the request being served
    queries,     \* the queries the handler has issued
    result,      \* what ExecuteQuery returned
    err,         \* whether it returned an error
    rec,         \* the record the loop is at, from 1
    act,         \* the actor the inner loop of graphHandler is at, from 1
    movIdx,      \* graphHandler's movIdx
    movies,      \* searchHandlerFunc's movies
    movie,       \* movieHandlerFunc's movie
    vote,        \* voteInMovieHandlerFunc's vote
    d3Response,  \* graphHandler's d3Response
    body,        \* what the handler has written to the response
    logged,      \* what the handler has logged
    process,     \* where main is
    environ,     \* the environment of the process
    configuration, \* main's configuration
    port         \* main's port

vars == <<pc, req, queries, result, err, rec, act, movIdx, movies, movie, vote,
          d3Response, body, logged, process, environ, configuration, port>>

mainVars == <<process, environ, configuration, port>>

\* A query the handler hands to ExecuteQuery: its template, its parameters
\* and the database of the configuration, which main gave the handler
\* (lines 91, 131, 167, 193 and 246-249).
Query(template, title, limit) ==
    [template |-> template, title |-> title, limit |-> limit,
     database |-> configuration.Database]

locals == <<rec, act, movIdx, movies, movie, vote, d3Response>>

\* ------------------------------------------------------------------ main
\* A variable of the environment: whether it is set, and its value. The
\* value of NEO4J_VERSION is a sequence of characters, the others are
\* strings.
Unset == <<FALSE, "">>
Set(value) == <<TRUE, value>>

Environment(portValue, uri, user, password, database, version) ==
    [PORT |-> portValue, NEO4J_URI |-> uri, NEO4J_USER |-> user, NEO4J_PASSWORD |-> password,
     NEO4J_DATABASE |-> database, NEO4J_VERSION |-> version]

NoEnvironment == Environment(Unset, Unset, Unset, Unset, Unset, Unset)

\* The environments main may start in: every variable unset or set; a
\* database set to the empty string; versions 4.4, 3.5, 5 and the empty one.
Environments ==
    {Environment(c[1], c[2], c[3], c[4], c[5], c[6]) : c \in
        {Unset, Set("9090")} \X {Unset, Set("bolt://localhost")}
            \X {Unset, Set("neo4j")} \X {Unset, Set("secret")}
            \X {Unset, Set("neo4j"), Set("")}
            \X {Unset, Set(<<"4", ".", "4">>), Set(<<"3", ".", "5">>), Set(<<"5">>),
                 Set(<<>>)}}

\* os.LookupEnv(key).
LookupEnv(e, key) == [env |-> e[key][2], found |-> e[key][1]]

\* A faulty lookup: the variable is not looked at.
lookupEnvIgnored(e, key, defaultValue) == defaultValue

\* Lines 285-291.
lookupEnvOrGetDefault(e, key, defaultValue) ==
    IF ~LookupEnv(e, key).found THEN defaultValue ELSE LookupEnv(e, key).env

\* strings.HasPrefix, on sequences of characters.
HasPrefix(s, prefix) == Len(s) >= Len(prefix) /\ SubSeq(s, 1, Len(prefix)) = prefix

\* Lines 56-61: the zero Neo4jConfiguration.
ZeroConfiguration == [Url |-> "", Username |-> "", Password |-> "", Database |-> ""]

\* Lines 272-283: the database is the empty string unless NEO4J_VERSION,
\* "4" when unset, starts with "4".
parseConfiguration(e) ==
    LET database == lookupEnvOrGetDefault(e, "NEO4J_DATABASE", "movies")
    IN  [Url |-> lookupEnvOrGetDefault(e, "NEO4J_URI", "neo4j+s://demo.neo4jlabs.com"),
         Username |-> lookupEnvOrGetDefault(e, "NEO4J_USER", "movies"),
         Password |-> lookupEnvOrGetDefault(e, "NEO4J_PASSWORD", "movies"),
         Database |-> IF ~HasPrefix(lookupEnvOrGetDefault(e, "NEO4J_VERSION", <<"4">>), <<"4">>)
                      THEN ""
                      ELSE database]

\* Lines 251-255: the port main listens on.
PortOf(e) == IF ~LookupEnv(e, "PORT").found THEN "8080" ELSE LookupEnv(e, "PORT").env

\* The requests' state when no request has been accepted.
InitRequests ==
    /\ pc = [r \in Reqs |-> "idle"]
    /\ req = [r \in Reqs |-> NoRequest]
    /\ queries = [r \in Reqs |-> <<>>]
    /\ result = [r \in Reqs |-> NilResult]
    /\ err = [r \in Reqs |-> FALSE]
    /\ rec = [r \in Reqs |-> 1]
    /\ act = [r \in Reqs |-> 1]
    /\ movIdx = [r \in Reqs |-> 0]
    /\ movies = [r \in Reqs |-> <<>>]
    /\ movie = [r \in Reqs |-> ZeroMovie]
    /\ vote = [r \in Reqs |-> ZeroVote]
    /\ d3Response = [r \in Reqs |-> ZeroD3Response]
    /\ body = [r \in Reqs |-> <<>>]
    /\ logged = [r \in Reqs |-> <<>>]

\* The server is up, started in an environment that sets none of its
\* variables.
Init ==
    /\ InitRequests
    /\ process = "serving"
    /\ environ = NoEnvironment
    /\ configuration = parseConfiguration(NoEnvironment)
    /\ port = PortOf(NoEnvironment)

\* main is entered, in any environment.
InitMain ==
    /\ InitRequests
    /\ process = "start"
    /\ environ \in Environments
    /\ configuration = ZeroConfiguration
    /\ port = ""

\* main, line 238.
MainParseConfiguration ==
    /\ process = "start"
    /\ configuration' = parseConfiguration(environ)
    /\ process' = "configured"
    /\ UNCHANGED <<environ, port, pc, req, queries, result, err, locals, body, logged>>

\* main, lines 239-242: the driver is created, or log.Fatal ends the process.
MainNewDriver ==
    /\ process = "configured"
    /\ \E failed \in BOOLEAN : process' = IF failed THEN "driverFatal" ELSE "driver"
    /\ UNCHANGED <<environ, configuration, port, pc, req, queries, result, err, locals,
                   body, logged>>

\* main, lines 243-256: the handlers are registered with the database of the
\* configuration, and the port is looked up.
MainPort ==
    /\ process = "driver"
    /\ port' = PortOf(environ)
    /\ process' = "listen"
    /\ UNCHANGED <<environ, configuration, pc, req, queries, result, err, locals, body, logged>>

\* main, line 257: ListenAndServe serves, or returns an error (the port
\* cannot be listened on) and main panics with it.
MainListenAndServe ==
    /\ process = "listen"
    /\ \E listening \in BOOLEAN : process' = IF listening THEN "serving" ELSE "listenPanic"
    /\ UNCHANGED <<environ, configuration, port, pc, req, queries, result, err, locals,
                   body, logged>>

\* unsafeClose, lines 293-297, deferred at line 243: it runs when main
\* panics; the process ends by the panic, or by log.Fatal when Close failed.
MainUnsafeClose ==
    /\ process = "listenPanic"
    /\ \E closed \in BOOLEAN : process' = IF closed THEN "panicked" ELSE "closeFatal"
    /\ UNCHANGED <<environ, configuration, port, pc, req, queries, result, err, locals,
                   body, logged>>

\* ------------------------------------------------------------- handlers
\* A handler is entered and calls ExecuteQuery with its query (lines 85-91,
\* 116-131, 162-167, 187-193).
Issue(r, request, query) ==
    /\ process = "serving"
    /\ pc[r] = "idle"
    /\ req' = [req EXCEPT ![r] = request]
    /\ queries' = [queries EXCEPT ![r] = Append(@, query)]
    /\ pc' = [pc EXCEPT ![r] = "query"]
    /\ UNCHANGED <<result, err, locals, body, logged>>
    /\ UNCHANGED mainVars

SearchRequest(r) ==
    \E q \in SearchTerms : Issue(r, Request("search", q, "", <<>>), Query("search", q, 0))

MovieRequest(r) ==
    \E t \in PathTitles : Issue(r, Request("movie", "", t, <<>>), Query("movie", t, 0))

VoteRequest(r) ==
    \E t \in PathTitles : Issue(r, Request("vote", "", t, <<>>), Query("vote", t, 0))

GraphRequest(r) ==
    \E ls \in FewLimits :
        Issue(r, Request("graph", "", "", ls), Query("graph", "", parseLimit(ls)))

\* graphHandler with every query string.
GraphRequestAny(r) ==
    /\ pc[r] = "idle"
    /\ \E ls \in AllLimits :
          Issue(r, Request("graph", "", "", ls), Query("graph", "", parseLimit(ls)))

\* The record sequences the engine may answer the query of request r with.
Answers(r) ==
    CASE req[r].endpoint = "search" -> SearchAnswers
      [] req[r].endpoint = "movie" -> MovieAnswers
      [] req[r].endpoint = "vote" -> VoteAnswers
      [] OTHER -> GraphAnswers

\* The properties a query sets: the vote query one per movie of the title.
Counters(r) == IF req[r].endpoint = "vote" THEN 0..MaxProps ELSE {0}

\* ExecuteQuery returns a result; closing the
\* session may still have failed. The graph query is row-limited: at most
\* limit records, and a negative limit is an error of the query.
ExecuteQueryReturns(r) ==
    /\ pc[r] = "query"
    /\ \E records \in Answers(r), propertiesSet \in Counters(r), closeFailed \in BOOLEAN :
          /\ req[r].endpoint = "graph" => Len(records) <= queries[r][Len(queries[r])].limit
          /\ result' = [result EXCEPT ![r] = EagerResult(records, propertiesSet)]
          /\ err' = [err EXCEPT ![r] = closeFailed]
    /\ pc' = [pc EXCEPT ![r] = "returned"]
    /\ UNCHANGED <<req, queries, locals, body, logged>>
    /\ UNCHANGED mainVars

\* ExecuteQuery returns from a database that holds no movie: a result
\* without records.
ExecuteQueryReturnsEmpty(r) ==
    /\ pc[r] = "query"
    /\ 0 <= queries[r][Len(queries[r])].limit
    /\ \E closeFailed \in BOOLEAN :
          /\ result' = [result EXCEPT ![r] = EagerResult(<<>>, 0)]
          /\ err' = [err EXCEPT ![r] = closeFailed]
    /\ pc' = [pc EXCEPT ![r] = "returned"]
    /\ UNCHANGED <<req, queries, locals, body, logged>>
    /\ UNCHANGED mainVars

\* A faulty handler: the query that failed is issued once more.
ExecuteQueryFailsRetried(r) ==
    /\ pc[r] = "query"
    /\ IF Len(queries[r]) < 2
       THEN /\ queries' = [queries EXCEPT ![r] = Append(@, @[1])]
            /\ UNCHANGED <<pc, result, err>>
       ELSE /\ result' = [result EXCEPT ![r] = NilResult]
            /\ err' = [err EXCEPT ![r] = TRUE]
            /\ pc' = [pc EXCEPT ![r] = "returned"]
            /\ UNCHANGED queries
    /\ UNCHANGED <<req, locals, body, logged, mainVars>>

\* ExecuteQuery fails: a nil result and an error.
ExecuteQueryFails(r) ==
    /\ pc[r] = "query"
    /\ result' = [result EXCEPT ![r] = NilResult]
    /\ err' = [err EXCEPT ![r] = TRUE]
    /\ pc' = [pc EXCEPT ![r] = "returned"]
    /\ UNCHANGED <<req, queries, locals, body, logged>>
    /\ UNCHANGED mainVars

\* Lines 105-108, 151-154, 176-179, 221-224: Encode writes the body, or
\* fails and the failure is logged.
WriteResponse(r, text, failure) ==
    \E written \in BOOLEAN :
        /\ body' = [body EXCEPT ![r] = IF written THEN Append(@, Encode(text)) ELSE @]
        /\ logged' = [logged EXCEPT ![r] = IF written THEN @ ELSE Append(@, failure)]
        /\ pc' = [pc EXCEPT ![r] = "done"]

\* A faulty handler: a result without records is taken for a failed query.
CheckThenWriteNoRows(r, failure, text, writeFailure) ==
    IF err[r] \/ result[r].Records = <<>>
    THEN /\ logged' = [logged EXCEPT ![r] = Append(@, failure)]
         /\ pc' = [pc EXCEPT ![r] = "done"]
         /\ UNCHANGED body
    ELSE WriteResponse(r, text, writeFailure)

\* Lines 147-150, 172-175, 217-220, then the response: the error is looked
\* at after the projection.
CheckThenWrite(r, failure, text, writeFailure) ==
    IF err[r]
    THEN /\ logged' = [logged EXCEPT ![r] = Append(@, failure)]
         /\ pc' = [pc EXCEPT ![r] = "done"]
         /\ UNCHANGED body
    ELSE WriteResponse(r, text, writeFailure)

\* result.Records, or result.Summary, of a nil result: the handler panics.
DerefResult(r, endpoint) ==
    /\ pc[r] = "returned"
    /\ req[r].endpoint = endpoint
    /\ pc' = [pc EXCEPT ![r] = IF result[r].isNil THEN "panic" ELSE "rows"]

\* searchHandlerFunc, lines 92-97.
SearchCheck(r) ==
    /\ pc[r] = "returned"
    /\ req[r].endpoint = "search"
    /\ IF err[r]
       THEN /\ logged' = [logged EXCEPT ![r] = Append(@, "error querying search")]
            /\ pc' = [pc EXCEPT ![r] = "done"]
            /\ UNCHANGED movies
       ELSE /\ movies' = [movies EXCEPT ![r] = [k \in 1..Len(result[r].Records) |-> ZeroMovie]]
            /\ pc' = [pc EXCEPT ![r] = "rows"]
            /\ UNCHANGED logged
    /\ UNCHANGED <<req, queries, result, err, rec, act, movIdx, movie, vote, d3Response, body>>
    /\ UNCHANGED mainVars

\* searchHandlerFunc, lines 98-104: one record.
SearchLoop(r) ==
    /\ pc[r] = "rows"
    /\ req[r].endpoint = "search"
    /\ rec[r] <= Len(result[r].Records)
    /\ movies' = [movies EXCEPT ![r][rec[r]] = SearchMovie(result[r].Records[rec[r]])]
    /\ rec' = [rec EXCEPT ![r] = @ + 1]
    /\ UNCHANGED <<pc, req, queries, result, err, act, movIdx, movie, vote, d3Response,
                   body, logged>>
    /\ UNCHANGED mainVars

\* searchHandlerFunc, lines 105-108.
SearchWrite(r) ==
    /\ pc[r] = "rows"
    /\ req[r].endpoint = "search"
    /\ rec[r] > Len(result[r].Records)
    /\ WriteResponse(r, JsonMovieResults(movies[r]), "error writing search response")
    /\ UNCHANGED <<req, queries, result, err, locals>>
    /\ UNCHANGED mainVars

\* movieHandlerFunc, lines 133-134.
MovieRange(r) ==
    /\ DerefResult(r, "movie")
    /\ UNCHANGED <<req, queries, result, err, locals, body, logged>>
    /\ UNCHANGED mainVars

\* movieHandlerFunc, lines 135-145: one record.
MovieLoop(r) ==
    /\ pc[r] = "rows"
    /\ req[r].endpoint = "movie"
    /\ rec[r] <= Len(result[r].Records)
    /\ LET record == result[r].Records[rec[r]]
       IN  IF MoviePersonPanics(record)
           THEN /\ movie' = [movie EXCEPT ![r].Title = AsString(GetRecordValue("string", record, "title"))]
                /\ pc' = [pc EXCEPT ![r] = "panic"]
                /\ UNCHANGED rec
           ELSE /\ movie' = [movie EXCEPT ![r] = MovieRow(@, record)]
                /\ rec' = [rec EXCEPT ![r] = @ + 1]
                /\ UNCHANGED pc
    /\ UNCHANGED <<req, queries, result, err, act, movIdx, movies, vote, d3Response,
                   body, logged>>
    /\ UNCHANGED mainVars

\* movieHandlerFunc, lines 147-154.
MovieWrite(r) ==
    /\ pc[r] = "rows"
    /\ req[r].endpoint = "movie"
    /\ rec[r] > Len(result[r].Records)
    /\ CheckThenWrite(r, "error querying movie", JsonMovie(movie[r]),
                      "error writing movie response")
    /\ UNCHANGED <<req, queries, result, err, locals>>
    /\ UNCHANGED mainVars

\* voteInMovieHandlerFunc, lines 169-170.
VoteCount(r) ==
    /\ DerefResult(r, "vote")
    /\ vote' = [vote EXCEPT ![r].Updates =
                   IF result[r].isNil THEN @ ELSE VoteUpdates(result[r])]
    /\ UNCHANGED <<req, queries, result, err, rec, act, movIdx, movies, movie, d3Response,
                   body, logged>>
    /\ UNCHANGED mainVars

\* voteInMovieHandlerFunc, lines 172-179.
VoteWrite(r) ==
    /\ pc[r] = "rows"
    /\ req[r].endpoint = "vote"
    /\ CheckThenWrite(r, "error voting for movie", JsonVote(vote[r]),
                      "error writing vote result response")
    /\ UNCHANGED <<req, queries, result, err, locals>>
    /\ UNCHANGED mainVars

\* graphHandler, lines 195-196.
GraphRange(r) ==
    /\ DerefResult(r, "graph")
    /\ UNCHANGED <<req, queries, result, err, locals, body, logged>>
    /\ UNCHANGED mainVars

\* A faulty handler: the result is one variable of the package, the one the
\* first request has set, instead of a local of each call.
ActorsOfFirstRequest(r) ==
    IF rec[r] <= Len(result[1].Records)
    THEN AsList(GetRecordValue("[]any", result[1].Records[rec[r]], "cast"))
    ELSE <<>>

\* The cast of the record the loop of graphHandler is at (line 198).
Actors(r) == AsList(GetRecordValue("[]any", result[r].Records[rec[r]], "cast"))

\* graphHandler, lines 197-200: the movie of one record.
GraphMovie(r) ==
    /\ pc[r] = "rows"
    /\ req[r].endpoint = "graph"
    /\ rec[r] <= Len(result[r].Records)
    /\ LET title == AsString(GetRecordValue("string", result[r].Records[rec[r]], "movie"))
       IN  d3Response' = [d3Response EXCEPT ![r] = AppendMovie(@, title)]
    /\ movIdx' = [movIdx EXCEPT ![r] = Len(d3Response[r].Nodes)]
    /\ act' = [act EXCEPT ![r] = 1]
    /\ IF Actors(r) = <<>>
       THEN rec' = [rec EXCEPT ![r] = @ + 1] /\ UNCHANGED pc
       ELSE pc' = [pc EXCEPT ![r] = "actors"] /\ UNCHANGED rec
    /\ UNCHANGED <<req, queries, result, err, movies, movie, vote, body, logged>>
    /\ UNCHANGED mainVars

\* graphHandler, lines 201-215: one actor of the record.
GraphActor(r) ==
    /\ pc[r] = "actors"
    /\ LET actor == Actors(r)[act[r]]
           idx == FindActor(d3Response[r].Nodes, actor)
       IN  IF idx = -1 /\ TypeOf(actor) # "string"
           THEN /\ pc' = [pc EXCEPT ![r] = "panic"]
                /\ UNCHANGED <<d3Response, rec, act>>
           ELSE /\ d3Response' = [d3Response EXCEPT ![r] = LinkActor(@, idx, actor, movIdx[r])]
                /\ IF act[r] < Len(Actors(r))
                   THEN act' = [act EXCEPT ![r] = @ + 1] /\ UNCHANGED <<pc, rec>>
                   ELSE /\ pc' = [pc EXCEPT ![r] = "rows"]
                        /\ rec' = [rec EXCEPT ![r] = @ + 1]
                        /\ UNCHANGED act
    /\ UNCHANGED <<req, queries, result, err, movIdx, movies, movie, vote, body, logged>>
    /\ UNCHANGED mainVars

\* graphHandler, lines 217-224.
GraphWrite(r) ==
    /\ pc[r] = "rows"
    /\ req[r].endpoint = "graph"
    /\ rec[r] > Len(result[r].Records)
    /\ CheckThenWrite(r, "error querying graph", JsonD3Response(d3Response[r]),
                      "error writing graph response")
    /\ UNCHANGED <<req, queries, result, err, locals>>
    /\ UNCHANGED mainVars

\* A faulty server: the panic of a handler is not recovered and ends the
\* process.
PanicEndsProcess(r) ==
    /\ pc[r] = "panic"
    /\ process' = "panicked"
    /\ UNCHANGED <<environ, configuration, port, pc, req, queries, result, err, locals,
                   body, logged>>

\* net/http recovers the panic of a handler and logs it; nothing was written.
Recover(r) ==
    /\ pc[r] = "panic"
    /\ logged' = [logged EXCEPT ![r] = Append(@, "http: panic serving")]
    /\ pc' = [pc EXCEPT ![r] = "recovered"]
    /\ UNCHANGED <<req, queries, result, err, locals, body>>
    /\ UNCHANGED mainVars

\* The handler has returned: its locals are gone, the slot serves the next
\* request.
Return(r) ==
    /\ pc[r] \in {"done", "recovered"}
    /\ pc' = [pc EXCEPT ![r] = "idle"]
    /\ req' = [req EXCEPT ![r] = NoRequest]
    /\ queries' = [queries EXCEPT ![r] = <<>>]
    /\ result' = [result EXCEPT ![r] = NilResult]
    /\ err' = [err EXCEPT ![r] = FALSE]
    /\ rec' = [rec EXCEPT ![r] = 1]
    /\ act' = [act EXCEPT ![r] = 1]
    /\ movIdx' = [movIdx EXCEPT ![r] = 0]
    /\ movies' = [movies EXCEPT ![r] = <<>>]
    /\ movie' = [movie EXCEPT ![r] = ZeroMovie]
    /\ vote' = [vote EXCEPT ![r] = ZeroVote]
    /\ d3Response' = [d3Response EXCEPT ![r] = ZeroD3Response]
    /\ body' = [body EXCEPT ![r] = <<>>]
    /\ logged' = [logged EXCEPT ![r] = <<>>]
    /\ UNCHANGED mainVars

\* The steps of the handler of request r after its query was issued.
Handle(r) ==
    \/ SearchCheck(r) \/ SearchLoop(r) \/ SearchWrite(r)
    \/ MovieRange(r) \/ MovieLoop(r) \/ MovieWrite(r)
    \/ VoteCount(r) \/ VoteWrite(r)
    \/ GraphRange(r) \/ GraphMovie(r) \/ GraphActor(r) \/ GraphWrite(r)
    \/ Recover(r) \/ Return(r)

\* One request at a time, on the first slot, with every answer of the engine.
Next ==
    \/ SearchRequest(1)
    \/ MovieRequest(1)
    \/ VoteRequest(1)
    \/ GraphRequest(1)
    \/ ExecuteQueryReturns(1)
    \/ ExecuteQueryFails(1)
    \/ Handle(1)

Spec == Init /\ [][Next]_vars

\* graphHandler alone, with every query string and an engine that fails or
\* returns no record.
NextLimit ==
    \/ GraphRequestAny(1)
    \/ ExecuteQueryReturnsEmpty(1)
    \/ ExecuteQueryFails(1)
    \/ GraphRange(1)
    \/ GraphWrite(1)
    \/ Recover(1)
    \/ Return(1)

SpecLimit == Init /\ [][NextLimit]_vars

\* ---------------------------------------------------- concurrent requests
\* net/http serves every request on a goroutine of its own (line 257): the
\* handlers of the requests of Reqs run interleaved, step by step. The
\* engine answers the graph and the detail query from a few results.
FewGraphAnswers ==
    {<<GraphRecord(VString("Top Gun"), VList(<<VString("Tom Cruise")>>)),
       GraphRecord(VString("Days of Thunder"), VList(<<VString("Tom Cruise")>>))>>,
     <<GraphRecord(VString("Days of Thunder"),
                   VList(<<VString("Top Gun"), VString("Tom Cruise")>>))>>}

FewMovieAnswers ==
    {<<MovieRecord(VString("The Matrix"), VString("Lana Wachowski"), VString("directed"), VNil),
       MovieRecord(VString("The Matrix"), VString("Keanu Reeves"), VString("acted"),
                   VList(<<VString("Neo")>>))>>}

FewAnswers(r) == IF req[r].endpoint = "movie" THEN FewMovieAnswers ELSE FewGraphAnswers

ConcurrentRequest(r) ==
    \/ Issue(r, Request("graph", "", "", <<>>), Query("graph", "", parseLimit(<<>>)))
    \/ Issue(r, Request("movie", "", "The Matrix", <<>>), Query("movie", "The Matrix", 0))

ExecuteQueryReturnsFew(r) ==
    /\ pc[r] = "query"
    /\ req[r].endpoint \in {"movie", "graph"}
    /\ \E records \in FewAnswers(r), closeFailed \in BOOLEAN :
          /\ result' = [result EXCEPT ![r] = EagerResult(records, 0)]
          /\ err' = [err EXCEPT ![r] = closeFailed]
    /\ pc' = [pc EXCEPT ![r] = "returned"]
    /\ UNCHANGED <<req, queries, locals, body, logged>>
    /\ UNCHANGED mainVars

NextConcurrent ==
    \E r \in Reqs :
        \/ ConcurrentRequest(r)
        \/ ExecuteQueryReturnsFew(r)
        \/ ExecuteQueryFails(r)
        \/ MovieRange(r) \/ MovieLoop(r) \/ MovieWrite(r)
        \/ GraphRange(r) \/ GraphMovie(r) \/ GraphActor(r) \/ GraphWrite(r)
        \/ Recover(r) \/ Return(r)

SpecConcurrent == Init /\ [][NextConcurrent]_vars

\* ----------------------------------------------------------- the process
\* main from its first line, then the server with one request at a time,
\* answered with no record, with a few records, or with a failure.
NextMain ==
    \/ MainParseConfiguration
    \/ MainNewDriver
    \/ MainPort
    \/ MainListenAndServe
    \/ MainUnsafeClose
    \/ SearchRequest(1)
    \/ MovieRequest(1)
    \/ VoteRequest(1)
    \/ GraphRequest(1)
    \/ ExecuteQueryReturnsEmpty(1)
    \/ ExecuteQueryReturnsFew(1)
    \/ ExecuteQueryFails(1)
    \/ SearchCheck(1) \/ SearchWrite(1)
    \/ MovieRange(1) \/ MovieLoop(1) \/ MovieWrite(1)
    \/ VoteCount(1) \/ VoteWrite(1)
    \/ GraphRange(1) \/ GraphMovie(1) \/ GraphActor(1) \/ GraphWrite(1)
    \/ Recover(1) \/ Return(1)

SpecMain == InitMain /\ [][NextMain]_vars

\* ------------------------------------------------------------- properties
\* What the handler of request r wrote, if it wrote.
Responded(r, endpoint) ==
    req[r].endpoint = endpoint /\ pc[r] = "done" /\ body[r] # <<>>

\* The graph request r has gone through all its records.
GraphBuilt(r) ==
    /\ req[r].endpoint = "graph"
    /\ \/ pc[r] = "rows" /\ rec[r] = Len(result[r].Records) + 1
       \/ pc[r] = "done"

\* A request of graphHandler that is past result.Records.
InGraphLoop(r) ==
    req[r].endpoint = "graph" /\ pc[r] \in {"rows", "actors", "done"}

\* The movie title and the cast a record of the graph query carries: a
\* column that is not of its type counts as empty.
TitleOf(record) ==
    IF TypeOf(record.movie) = "string" THEN AsString(record.movie) ELSE ""
CastOf(record) ==
    IF TypeOf(record.cast) = "[]any" THEN AsList(record.cast) ELSE <<>>
StringCast(record) ==
    \A k \in 1..Len(CastOf(record)) : TypeOf(CastOf(record)[k]) = "string"
NamesOf(record) == [k \in 1..Len(CastOf(record)) |-> AsString(CastOf(record)[k])]

\* The algorithm of the specification, on rows (title, names).
RECURSIVE RefActors(_, _, _)
RefActors(g, names, movieIndex) ==
    IF names = <<>> THEN g
    ELSE LET found == {i \in 1..Len(g.Nodes) :
                          g.Nodes[i].Label = "actor" /\ g.Nodes[i].Title = names[1]}
         IN  IF found # {}
             THEN RefActors([Nodes |-> g.Nodes,
                             Links |-> Append(g.Links,
                                 [Source |-> (CHOOSE i \in found : TRUE) - 1,
                                  Target |-> movieIndex])],
                            Tail(names), movieIndex)
             ELSE RefActors([Nodes |-> Append(g.Nodes, [Title |-> names[1], Label |-> "actor"]),
                             Links |-> Append(g.Links,
                                 [Source |-> Len(g.Nodes), Target |-> movieIndex])],
                            Tail(names), movieIndex)

RECURSIVE RefGraph(_, _)
RefGraph(g, records) ==
    IF records = <<>> THEN g
    ELSE RefGraph(
            RefActors([Nodes |-> Append(g.Nodes, [Title |-> TitleOf(records[1]), Label |-> "movie"]),
                       Links |-> g.Links],
                      NamesOf(records[1]), Len(g.Nodes)),
            Tail(records))

TopGunRows ==
    <<GraphRecord(VString("Top Gun"), VList(<<VString("Tom Cruise")>>)),
      GraphRecord(VString("Days of Thunder"), VList(<<VString("Tom Cruise")>>))>>

TopGunGraph ==
    [Nodes |-> <<[Title |-> "Top Gun", Label |-> "movie"],
                 [Title |-> "Tom Cruise", Label |-> "actor"],
                 [Title |-> "Days of Thunder", Label |-> "movie"]>>,
     Links |-> <<[Source |-> 1, Target |-> 0], [Source |-> 1, Target |-> 2]>>]

\* C1: for rows whose actor names are strings, graphHandler builds exactly the
\* nodes and links of the specification's algorithm, and writes them; the rows
\* (Top Gun, [Tom Cruise]), (Days of Thunder, [Tom Cruise]) give the nodes Top
\* Gun/movie, Tom Cruise/actor, Days of Thunder/movie and the links 1->0, 1->2.
C1_GraphMatchesReference ==
    \A r \in Reqs :
        /\ (GraphBuilt(r) /\ \A k \in 1..Len(result[r].Records) : StringCast(result[r].Records[k]))
              => d3Response[r] = RefGraph([Nodes |-> <<>>, Links |-> <<>>], result[r].Records)
        /\ Responded(r, "graph")
              => body[r] = <<Encode(JsonD3Response(
                                RefGraph([Nodes |-> <<>>, Links |-> <<>>], result[r].Records)))>>
        /\ (GraphBuilt(r) /\ result[r].Records = TopGunRows) => d3Response[r] = TopGunGraph

C1_Witness ==
    \E r \in Reqs :
        /\ Responded(r, "graph")
        /\ result[r].Records = TopGunRows
        /\ d3Response[r] = TopGunGraph

\* The (row, name) pairs of the casts of the records, in order.
RECURSIVE CastPairs(_, _)
CastPairs(records, from) ==
    IF from > Len(records) THEN <<>>
    ELSE [k \in 1..Len(CastOf(records[from])) |->
             [row |-> from, name |-> AsString(CastOf(records[from])[k])]]
         \o CastPairs(records, from + 1)

\* The pairs graphHandler has gone through so far.
PairsDone(r) ==
    LET pairs == CastPairs(result[r].Records, 1)
    IN  SelectSeq(pairs,
            LAMBDA p : \/ p.row < rec[r]
                       \/ pc[r] = "done")
        \o (IF pc[r] = "actors"
            THEN [k \in 1..(act[r] - 1) |->
                     [row |-> rec[r], name |-> AsString(Actors(r)[k])]]
            ELSE <<>>)

\* The records whose movie node is appended.
RowsStarted(r) ==
    IF pc[r] = "done" THEN Len(result[r].Records)
    ELSE IF pc[r] = "actors" THEN rec[r] ELSE rec[r] - 1

NodesLabelled(d, label) == {i \in 1..Len(d.Nodes) : d.Nodes[i].Label = label}

\* C2: the response has one movie node per row and one actor node per
\* distinct actor name of the casts; no name is on two actor nodes.
C2_NodeCounts ==
    \A r \in Reqs :
        /\ InGraphLoop(r) =>
              \A i, j \in NodesLabelled(d3Response[r], "actor") :
                  d3Response[r].Nodes[i].Title = d3Response[r].Nodes[j].Title => i = j
        /\ GraphBuilt(r) =>
              LET pairs == CastPairs(result[r].Records, 1)
              IN  /\ Cardinality(NodesLabelled(d3Response[r], "movie")) = Len(result[r].Records)
                  /\ Cardinality(NodesLabelled(d3Response[r], "actor"))
                        = Cardinality({pairs[k].name : k \in 1..Len(pairs)})
                  /\ {d3Response[r].Nodes[i].Title : i \in NodesLabelled(d3Response[r], "actor")}
                        = {pairs[k].name : k \in 1..Len(pairs)}

C2_Witness ==
    \E r \in Reqs :
        /\ Responded(r, "graph")
        /\ Len(result[r].Records) = 2
        /\ Len(CastPairs(result[r].Records, 1)) = 4
        /\ Cardinality(NodesLabelled(d3Response[r], "actor")) = 2

\* C3: at every step each link's target is the index of a movie node and its
\* source the index of an actor node titled as the actor; an actor named as a
\* movie is titled gets a node of its own.
C3_LinkEnds ==
    \A r \in Reqs :
        InGraphLoop(r) =>
            LET d == d3Response[r]
                pairs == PairsDone(r)
            IN  /\ Len(d.Links) = Len(pairs)
                /\ \A k \in 1..Len(d.Links) :
                      /\ d.Links[k].Target + 1 \in NodesLabelled(d, "movie")
                      /\ d.Links[k].Source + 1 \in NodesLabelled(d, "actor")
                      /\ d.Nodes[d.Links[k].Source + 1].Title = pairs[k].name

C3_Witness ==
    \E r \in Reqs :
        /\ Responded(r, "graph")
        /\ \E k \in 1..Len(d3Response[r].Links) :
              LET lk == d3Response[r].Links[k]
              IN  /\ d3Response[r].Nodes[lk.Source + 1] = [Title |-> "Top Gun", Label |-> "actor"]
                  /\ d3Response[r].Nodes[lk.Target + 1] = [Title |-> "Top Gun", Label |-> "movie"]

\* The names of the pairs before position k, and of the rows before row i.
NamesBefore(pairs, k) == {pairs[j].name : j \in 1..(k - 1)}
NamesBeforeRow(pairs, i) == {pairs[j].name : j \in {h \in 1..Len(pairs) : pairs[h].row < i}}
\* Where the name of pair k occurs first.
FirstOf(pairs, k) ==
    CHOOSE f \in 1..k : pairs[f].name = pairs[k].name
                        /\ \A h \in 1..(f - 1) : pairs[h].name # pairs[k].name
\* The index of the movie node of row i: the rows and the names before it.
MovieIndex(pairs, i) == (i - 1) + Cardinality(NamesBeforeRow(pairs, i))
\* The index of the actor node of pair k: appended at the name's first
\* occurrence, after the movies up to that row and the names before it.
ActorIndex(pairs, k) ==
    LET f == FirstOf(pairs, k)
    IN  pairs[f].row + Cardinality(NamesBefore(pairs, f))

\* C4: a name in the casts of two rows has one actor node, where the name
\* came first, and both its links have that node as source and the two
\* movie nodes as targets.
C4_ActorReused ==
    \A r \in Reqs :
        InGraphLoop(r) =>
            LET d == d3Response[r]
                pairs == PairsDone(r)
            IN  \A k1, k2 \in 1..Len(pairs) :
                    (pairs[k1].name = pairs[k2].name /\ pairs[k1].row < pairs[k2].row) =>
                        /\ k2 <= Len(d.Links)
                        /\ d.Links[k1].Source = ActorIndex(pairs, k1)
                        /\ d.Links[k2].Source = d.Links[k1].Source
                        /\ Cardinality({i \in NodesLabelled(d, "actor") :
                                           d.Nodes[i].Title = pairs[k1].name}) = 1
                        /\ d.Nodes[d.Links[k1].Source + 1]
                              = [Title |-> pairs[k1].name, Label |-> "actor"]
                        /\ d.Links[k1].Target = MovieIndex(pairs, pairs[k1].row)
                        /\ d.Links[k2].Target = MovieIndex(pairs, pairs[k2].row)
                        /\ d.Links[k1].Target # d.Links[k2].Target

C4_Witness ==
    \E r \in Reqs :
        /\ Responded(r, "graph")
        /\ Len(result[r].Records) = 2
        /\ NamesOf(result[r].Records[1]) = <<"Top Gun", "Tom Cruise">>
        /\ NamesOf(result[r].Records[2]) = <<"Tom Cruise">>
        /\ d3Response[r].Links = <<[Source |-> 1, Target |-> 0], [Source |-> 2, Target |-> 0],
                                   [Source |-> 2, Target |-> 3]>>

\* The rows a sequence of graph records holds with the title t.
RowsTitled(records, t) == {i \in 1..Len(records) : TitleOf(records[i]) = t}

RECURSIVE CastTotal(_)
CastTotal(records) ==
    IF records = <<>> THEN 0 ELSE Len(CastOf(records[1])) + CastTotal(Tail(records))

\* C5: every row gives one movie node, rows of the same title too, and one
\* link per entry of its cast, whether the actor's node is new or reused.
C5_RowContribution ==
    \A r \in Reqs :
        /\ InGraphLoop(r) =>
              /\ Cardinality(NodesLabelled(d3Response[r], "movie")) = RowsStarted(r)
              /\ Len(d3Response[r].Links) = Len(PairsDone(r))
        /\ GraphBuilt(r) =>
              /\ Len(d3Response[r].Links) = CastTotal(result[r].Records)
              /\ \A t \in {TitleOf(result[r].Records[i]) : i \in 1..Len(result[r].Records)} :
                    Cardinality({i \in NodesLabelled(d3Response[r], "movie") :
                                    d3Response[r].Nodes[i].Title = t})
                        = Cardinality(RowsTitled(result[r].Records, t))

C5_Witness ==
    \E r \in Reqs :
        /\ Responded(r, "graph")
        /\ Len(result[r].Records) = 2
        /\ TitleOf(result[r].Records[1]) = TitleOf(result[r].Records[2])
        /\ NamesOf(result[r].Records[1]) = NamesOf(result[r].Records[2])
        /\ Len(NamesOf(result[r].Records[1])) = 2
        /\ Len(d3Response[r].Links) = 4
        /\ Cardinality(NodesLabelled(d3Response[r], "movie")) = 2

\* -------------------------------------------------- search, detail, vote
\* What a column of a row carries as a string and as a number: nothing, a
\* null or a value of another type counts as the empty string and as 0.
ColumnString(record, key) ==
    IF key \in DOMAIN record /\ record[key][1] = "string" THEN record[key][2] ELSE ""
ColumnInt(record, key) ==
    IF key \in DOMAIN record /\ record[key][1] = "int64" THEN record[key][3] ELSE 0

\* The search request r is past the error check, at or after its rows.
InSearchLoop(r) == req[r].endpoint = "search" /\ pc[r] \in {"rows", "done"} /\ ~err[r]

\* C6: the search projection keeps one summary per row, in the order of the
\* rows: the output is as long as the input, entry i carries title, tagline,
\* votes and released of row i, a missing tagline or votes being "" or 0,
\* and the response is that list.
C6_SearchProjection ==
    \A r \in Reqs :
        InSearchLoop(r) =>
            /\ Len(movies[r]) = Len(result[r].Records)
            /\ \A i \in 1..(rec[r] - 1) :
                  /\ movies[r][i].Title = ColumnString(result[r].Records[i], "title")
                  /\ movies[r][i].Tagline = ColumnString(result[r].Records[i], "tagline")
                  /\ movies[r][i].Votes = ColumnInt(result[r].Records[i], "votes")
                  /\ movies[r][i].Released = ColumnInt(result[r].Records[i], "released")
                  /\ movies[r][i].Cast = <<>>
            /\ pc[r] = "done" => rec[r] = Len(result[r].Records) + 1
            /\ Responded(r, "search") => body[r] = <<Encode(JsonMovieResults(movies[r]))>>

\* Two rows that are not in the order of their titles, the second without
\* tagline and votes, are answered in that order.
C6_Witness ==
    \E r \in Reqs :
        /\ Responded(r, "search")
        /\ Len(result[r].Records) = 2
        /\ result[r].Records[1].title = VString("The Matrix Reloaded")
        /\ result[r].Records[2]
              = SearchRecord(VString("The Matrix"), VNil, VNil, VInt(1999))
        /\ movies[r][1].Title = "The Matrix Reloaded"
        /\ movies[r][1].Released = 2003
        /\ movies[r][2] = [Released |-> 1999, Title |-> "The Matrix", Tagline |-> "",
                           Votes |-> 0, Cast |-> <<>>]

\* The detail request r is in or past its rows without a failed conversion.
InMovieLoop(r) == req[r].endpoint = "movie" /\ pc[r] \in {"rows", "done"}

\* C7: the detail projection appends one Person per row, whatever the row
\* holds: the cast is as long as the rows gone through and in their order,
\* and the title is the one the rows carry (the last row's).
C7_DetailProjection ==
    \A r \in Reqs :
        InMovieLoop(r) =>
            LET records == result[r].Records
                cast == movie[r].Cast
            IN  /\ Len(cast) = rec[r] - 1
                /\ \A i \in 1..(rec[r] - 1) :
                      /\ cast[i].Name = ColumnString(records[i], "name")
                      /\ cast[i].Job = ColumnString(records[i], "job")
                /\ pc[r] = "done" => Len(cast) = Len(records)
                /\ rec[r] > 1 => movie[r].Title = ColumnString(records[rec[r] - 1], "title")
                /\ (rec[r] > 1 /\ \A i \in 1..(rec[r] - 1) :
                                      records[i].title = VString("The Matrix"))
                      => movie[r].Title = "The Matrix"
                /\ Responded(r, "movie") => body[r] = <<Encode(JsonMovie(movie[r]))>>

\* A director before an actor: the cast keeps the order of arrival.
C7_Witness ==
    \E r \in Reqs :
        /\ Responded(r, "movie")
        /\ Len(result[r].Records) = 2
        /\ result[r].Records[1].name = VString("Lana Wachowski")
        /\ result[r].Records[2].name = VString("Keanu Reeves")
        /\ result[r].Records[2].role = VList(<<VString("Neo")>>)
        /\ movie[r].Title = "The Matrix"
        /\ movie[r].Cast = <<[Name |-> "Lana Wachowski", Job |-> "directed", Role |-> <<>>],
                             [Name |-> "Keanu Reeves", Job |-> "acted", Role |-> <<"Neo">>]>>

\* The row of a movie without cast: name, job and role are null.
SentinelRow == [title |-> VString("The Matrix"), name |-> VNil, job |-> VNil, role |-> VNil]

\* C8: a single sentinel row gives, without a failure of the projection, a
\* movie of the row's title with exactly one cast entry of empty name, empty
\* job and no role; a result of zero rows gives a movie without cast entry.
C8_SentinelRow ==
    \A r \in Reqs :
        /\ (req[r].endpoint = "movie" /\ ~result[r].isNil /\ result[r].Records = <<SentinelRow>>) =>
              /\ pc[r] \notin {"panic", "recovered"}
              /\ (pc[r] = "done" \/ (pc[r] = "rows" /\ rec[r] = 2)) =>
                    /\ movie[r].Title = "The Matrix"
                    /\ Len(movie[r].Cast) = 1
                    /\ movie[r].Cast[1] = [Name |-> "", Job |-> "", Role |-> <<>>]
              /\ Responded(r, "movie") =>
                    body[r] = <<"{\"released\":0,\"title\":\"The Matrix\",\"cast\":"
                                \o "[{\"job\":\"\",\"role\":null,\"name\":\"\"}]}\n">>
        /\ (InMovieLoop(r) /\ result[r].Records = <<>>) =>
              /\ movie[r].Cast = <<>>
              /\ Responded(r, "movie") => body[r] = <<"{\"released\":0}\n">>

C8_Witness ==
    \E r \in Reqs :
        /\ Responded(r, "movie")
        /\ result[r].Records = <<SentinelRow>>
        /\ Len(movie[r].Cast) = 1
        /\ movie[r].Cast[1].Name = ""

\* C9: the vote projection answers with the properties the write set and
\* issues no query but the write; 0 properties set is answered with
\* {"updates":0} and is no error.
C9_VoteProjection ==
    \A r \in Reqs :
        (req[r].endpoint = "vote" /\ pc[r] \in {"rows", "done"}) =>
            /\ vote[r].Updates = result[r].PropertiesSet
            /\ Len(queries[r]) = 1
            /\ queries[r][1].template = "vote"
            /\ Responded(r, "vote") =>
                  body[r] = <<"{\"updates\":" \o ToString(result[r].PropertiesSet) \o "}\n">>
            /\ (result[r].PropertiesSet = 0 /\ ~err[r] /\ pc[r] = "done") =>
                  /\ \A k \in 1..Len(logged[r]) : logged[r][k] # "error voting for movie"
                  /\ body[r] # <<>> => body[r] = <<"{\"updates\":0}\n">>

C9_Witness ==
    \E r \in Reqs :
        /\ Responded(r, "vote")
        /\ result[r].PropertiesSet = 0
        /\ vote[r].Updates = 0
        /\ body[r] = <<"{\"updates\":0}\n">>
        /\ logged[r] = <<>>

\* ------------------------------------------------------------ the limit
\* The digits of a limit value, after its sign if it has one.
DigitsOf(s) == IF s # <<>> /\ s[1] \in {"+", "-"} THEN Tail(s) ELSE s

\* The value is the text of an integer: digits, at least one, after an
\* optional sign, fewer than 2^63 has, so that it is in the range of int.
IsIntegerText(s) ==
    /\ DigitsOf(s) # <<>>
    /\ \A k \in 1..Len(DigitsOf(s)) : DigitsOf(s)[k] \in Digit
    /\ Len(DigitsOf(s)) < Len(IntLimitDigits)

RECURSIVE Pow10(_)
Pow10(n) == IF n = 0 THEN 1 ELSE 10 * Pow10(n - 1)

RECURSIVE Magnitude(_, _)
\* The sum of the digits of ds from position k, each at its power of ten.
Magnitude(ds, k) ==
    IF k > Len(ds) THEN 0
    ELSE DigitVal(ds[k]) * Pow10(Len(ds) - k) + Magnitude(ds, k + 1)

IntegerOf(s) ==
    IF s[1] = "-" THEN 0 - Magnitude(DigitsOf(s), 1) ELSE Magnitude(DigitsOf(s), 1)

\* No digits, or a character that is no digit.
NotIntegerText(s) ==
    DigitsOf(s) = <<>> \/ \E k \in 1..Len(DigitsOf(s)) : DigitsOf(s)[k] \notin Digit

\* C10: the limit of the graph query is 50 when the request has no limit
\* and when its first limit is no integer ("abc", "", or past the range of
\* int), the query then being the one of a request without limit; a first
\* limit that is an integer is the limit of the query, unchanged.
C10_ParseLimit ==
    \A r \in Reqs :
        (req[r].endpoint = "graph" /\ queries[r] # <<>>) =>
            LET limits == req[r].limits
                NoLimitQuery == [template |-> "graph", title |-> "", limit |-> 50,
                                 database |-> "movies"]
            IN  /\ Len(queries[r]) = 1
                /\ limits = <<>> => queries[r][1] = NoLimitQuery
                /\ (limits # <<>> /\ NotIntegerText(limits[1])) => queries[r][1] = NoLimitQuery
                /\ (limits # <<>> /\ limits[1] \in {<<"a", "b", "c">>, <<>>})
                      => queries[r][1].limit = 50
                /\ (limits # <<>> /\ limits[1] = HugeLimit) => queries[r][1].limit = 50
                /\ (limits # <<>> /\ IsIntegerText(limits[1]))
                      => queries[r][1].limit = IntegerOf(limits[1])

\* /graph?limit=abc has asked for 50 rows.
C10_Witness ==
    \E r \in Reqs :
        /\ req[r].endpoint = "graph"
        /\ pc[r] = "done"
        /\ req[r].limits = << <<"a", "b", "c">> >>
        /\ queries[r] = <<[template |-> "graph", title |-> "", limit |-> 50,
                           database |-> "movies"]>>

\* ------------------------------------------------------- failures, panics
\* What each handler logs when its query failed (lines 93, 148, 173, 218).
QueryFailureLog(endpoint) ==
    CASE endpoint = "search" -> "error querying search"
      [] endpoint = "movie" -> "error querying movie"
      [] endpoint = "vote" -> "error voting for movie"
      [] OTHER -> "error querying graph"

\* The handler of request r has ended, by returning or by a panic recovered.
Ended(r) == pc[r] \in {"done", "recovered"}

\* C11: when the query of a request failed, its handler has logged the
\* error and has written no response body, at each of the four endpoints.
C11_QueryFailureLogged ==
    \A r \in Reqs :
        (Ended(r) /\ err[r]) =>
            /\ body[r] = <<>>
            /\ logged[r] = <<QueryFailureLog(req[r].endpoint)>>

\* C12: a row with a malformed field never fails the response: once the
\* query has returned its records, the handler does not panic, whatever the
\* columns of the rows hold, a role or a cast with an element that is no
\* string included.
C12_MalformedFieldDefaulted ==
    \A r \in Reqs :
        (req[r].endpoint \in {"search", "movie", "graph"} /\ ~result[r].isNil) =>
            pc[r] \notin {"panic", "recovered"}

\* ---------------------------------------------------- concurrent requests
\* The detail projection of a row sequence, run alone.
RECURSIVE RefCast(_)
RefCast(records) ==
    IF records = <<>> THEN <<>>
    ELSE <<[Name |-> ColumnString(records[1], "name"),
            Job |-> ColumnString(records[1], "job"),
            Role |-> IF records[1].role[1] = "[]any"
                     THEN [k \in 1..Len(records[1].role[4]) |-> records[1].role[4][k][2]]
                     ELSE <<>>]>>
         \o RefCast(Tail(records))

RefMovie(records) ==
    [Released |-> 0,
     Title |-> IF records = <<>> THEN "" ELSE ColumnString(records[Len(records)], "title"),
     Tagline |-> "", Votes |-> 0, Cast |-> RefCast(records)]

\* C13: requests served concurrently do not interfere: under every
\* interleaving of their handlers, what each request has built and written
\* is the projection of its own rows, as if it had run alone.
C13_NoInterference ==
    \A r \in Reqs :
        /\ GraphBuilt(r) =>
              d3Response[r] = RefGraph([Nodes |-> <<>>, Links |-> <<>>], result[r].Records)
        /\ Responded(r, "graph") =>
              body[r] = <<Encode(JsonD3Response(
                            RefGraph([Nodes |-> <<>>, Links |-> <<>>], result[r].Records)))>>
        /\ (req[r].endpoint = "movie" /\ pc[r] = "done") =>
              movie[r] = RefMovie(result[r].Records)
        /\ Responded(r, "movie") =>
              body[r] = <<Encode(JsonMovie(RefMovie(result[r].Records)))>>

\* Two graph requests in flight at once, answered from different rows, have
\* both written their own graph.
C13_Witness ==
    /\ Responded(1, "graph")
    /\ Responded(2, "graph")
    /\ Len(result[1].Records) = 1
    /\ Len(result[2].Records) = 2
    /\ Len(d3Response[1].Links) = 2
    /\ d3Response[2] = TopGunGraph

\* ----------------------------------------------------------- the process
\* The process is ending or has ended.
Aborting == {"driverFatal", "listenPanic", "panicked", "closeFatal"}

\* The process stops serving, or starts to end, in this step.
StopsServing == process = "serving" /\ process' # "serving"
StartsToEnd == process \notin Aborting /\ process' \in Aborting

ValueOrDefault(key, default) == IF environ[key][1] THEN environ[key][2] ELSE default

\* main has its configuration, and its port.
Configured == process # "start"
PortChosen == process \notin {"start", "configured", "driver", "driverFatal"}

\* Url, user, password and port are their variable's value or the default.
ConnectionFromEnvironment ==
    /\ Configured =>
          /\ configuration.Url = ValueOrDefault("NEO4J_URI", "neo4j+s://demo.neo4jlabs.com")
          /\ configuration.Username = ValueOrDefault("NEO4J_USER", "movies")
          /\ configuration.Password = ValueOrDefault("NEO4J_PASSWORD", "movies")
    /\ PortChosen => port = ValueOrDefault("PORT", "8080")

\* The configuration and every query issued have the database name.
DatabaseIs(name) ==
    /\ Configured => configuration.Database = name
    /\ \A r \in Reqs : \A k \in 1..Len(queries[r]) : queries[r][k].database = name

\* NEO4J_VERSION is unset, or its value starts with 4.
VersionFour ==
    \/ ~environ["NEO4J_VERSION"][1]
    \/ /\ environ["NEO4J_VERSION"][2] # <<>>
       /\ environ["NEO4J_VERSION"][2][1] = "4"

RECURSIVE IndexedActors(_, _, _)
IndexedActors(st, names, movieIndex) ==
    IF names = <<>> THEN st
    ELSE IF names[1] \in DOMAIN st.index
    THEN IndexedActors(
            [g |-> [Nodes |-> st.g.Nodes,
                    Links |-> Append(st.g.Links,
                                [Source |-> st.index[names[1]], Target |-> movieIndex])],
             index |-> st.index],
            Tail(names), movieIndex)
    ELSE IndexedActors(
            [g |-> [Nodes |-> Append(st.g.Nodes, [Title |-> names[1], Label |-> "actor"]),
                    Links |-> Append(st.g.Links,
                                [Source |-> Len(st.g.Nodes), Target |-> movieIndex])],
             index |-> (names[1] :> Len(st.g.Nodes)) @@ st.index],
            Tail(names), movieIndex)

RECURSIVE IndexedRows(_, _)
IndexedRows(st, records) ==
    IF records = <<>> THEN st
    ELSE IndexedRows(
            IndexedActors(
                [g |-> [Nodes |-> Append(st.g.Nodes,
                                    [Title |-> TitleOf(records[1]), Label |-> "movie"]),
                        Links |-> st.g.Links],
                 index |-> st.index],
                NamesOf(records[1]), Len(st.g.Nodes)),
            Tail(records))

IndexedGraph(records) ==
    IndexedRows([g |-> [Nodes |-> <<>>, Links |-> <<>>], index |-> <<>>], records).g

\* C15: with a lookup index from actor name to node index in place of the
\* linear scan, the projection gives the node sequence and the link sequence
\* graphHandler gives, for every row sequence.
C15_IndexRefinesScan ==
    \A r \in Reqs :
        /\ GraphBuilt(r) => d3Response[r] = IndexedGraph(result[r].Records)
        /\ Responded(r, "graph") =>
              body[r] = <<Encode(JsonD3Response(IndexedGraph(result[r].Records)))>>

\* An actor named as the movie of the first row is in the casts of both rows:
\* the movie's node is not taken for the actor's.
C15_Witness ==
    \E r \in Reqs :
        /\ Responded(r, "graph")
        /\ Len(result[r].Records) = 2
        /\ TitleOf(result[r].Records[1]) = "Top Gun"
        /\ NamesOf(result[r].Records[1]) = <<"Tom Cruise", "Top Gun">>
        /\ NamesOf(result[r].Records[2]) = <<"Top Gun", "Tom Cruise">>
        /\ Len(d3Response[r].Nodes) = 4
        /\ d3Response[r].Links = <<[Source |-> 1, Target |-> 0], [Source |-> 2, Target |-> 0],
                                   [Source |-> 2, Target |-> 3], [Source |-> 1, Target |-> 3]>>

\* ---------------------------------------------------------------- roles
\* The role column of a row is a list; the strings it holds, in its order.
RoleIsList(record) == record.role[1] = "[]any"
RoleStrings(record) == [k \in 1..Len(record.role[4]) |-> record.role[4][k][2]]
RoleHoldsNonString(record) ==
    RoleIsList(record) /\ \E k \in 1..Len(record.role[4]) : record.role[4][k][1] # "string"

\* C17: in the detail projection a row whose role is a list gives a Person
\* with the strings of the list in the list's order; a row whose role is
\* null or no list gives a Person with the row's name and job and no role,
\* and the projection does not fail on it.
C17_RoleHandling ==
    \A r \in Reqs :
        (req[r].endpoint = "movie" /\ ~result[r].isNil /\ pc[r] \in {"rows", "done", "panic"}) =>
            LET records == result[r].Records
                cast == movie[r].Cast
            IN  /\ Len(cast) = rec[r] - 1
                /\ \A i \in 1..Len(cast) :
                      /\ cast[i].Name = ColumnString(records[i], "name")
                      /\ cast[i].Job = ColumnString(records[i], "job")
                      /\ RoleIsList(records[i]) => cast[i].Role = RoleStrings(records[i])
                      /\ ~RoleIsList(records[i]) => cast[i].Role = <<>>
                /\ pc[r] = "panic" => RoleHoldsNonString(records[rec[r]])

\* A row with two roles and a row whose role is a string, not a list.
C17_Witness ==
    \E r \in Reqs :
        /\ Responded(r, "movie")
        /\ Len(result[r].Records) = 2
        /\ result[r].Records[1].role
              = VList(<<VString("Thomas Anderson"), VString("Neo")>>)
        /\ result[r].Records[2].role = VString("Neo")
        /\ movie[r].Cast[1].Role = <<"Thomas Anderson", "Neo">>
        /\ movie[r].Cast[2] = [Name |-> "Keanu Reeves", Job |-> "acted", Role |-> <<>>]

\* -------------------------------------------------------------- queries
\* C18: a request issues exactly one query, the one of its endpoint, when
\* it is accepted, and none after it, whether the query succeeds or fails.
C18_OneQueryPerRequest ==
    \A r \in Reqs :
        /\ pc[r] = "idle" => queries[r] = <<>>
        /\ pc[r] # "idle" =>
              /\ Len(queries[r]) = 1
              /\ queries[r][1].template = req[r].endpoint
              /\ req[r].endpoint \in {"search", "movie", "vote", "graph"}

\* The query of a search request has failed and the handler has ended, having
\* issued the one query.
C18_Witness ==
    \E r \in Reqs :
        /\ pc[r] = "done"
        /\ req[r].endpoint = "search"
        /\ err[r]
        /\ result[r].isNil
        /\ logged[r] = <<"error querying search">>
        /\ Len(queries[r]) = 1
        /\ queries[r][1].template = "search"

\* ------------------------------------------------------------ append-only
\* s is a prefix of t.
IsPrefix(s, t) == Len(s) <= Len(t) /\ SubSeq(t, 1, Len(s)) = s

\* A step of graphHandler within the building of its response keeps the
\* nodes and the links it has and adds at their end.
AppendOnly ==
    \A r \in Reqs :
        (InGraphLoop(r) /\ InGraphLoop(r)') =>
            /\ IsPrefix(d3Response[r].Nodes, d3Response'[r].Nodes)
            /\ IsPrefix(d3Response[r].Links, d3Response'[r].Links)

\* The indices of every link are indices of nodes there are.
LinksInRange ==
    \A r \in Reqs :
        InGraphLoop(r) =>
            \A k \in 1..Len(d3Response[r].Links) :
                /\ d3Response[r].Links[k].Source \in 0..(Len(d3Response[r].Nodes) - 1)
                /\ d3Response[r].Links[k].Target \in 0..(Len(d3Response[r].Nodes) - 1)

\* C19: while the graph response is built, the node list and the link list
\* only grow at their end, step after step, so that a node a link refers to
\* stays what it is, and every index of a link is below the number of nodes.
C19_AppendOnly == [][AppendOnly]_vars /\ []LinksInRange

\* A link is recorded and a node was appended after it.
C19_Witness ==
    \E r \in Reqs :
        /\ req[r].endpoint = "graph"
        /\ pc[r] = "actors"
        /\ rec[r] = 2
        /\ d3Response[r].Links = <<[Source |-> 1, Target |-> 0]>>
        /\ Len(d3Response[r].Nodes) = 3

\* ------------------------------------------------------------ link shape
\* The link of pair k is to an actor whose node it appended, to an actor
\* whose node an earlier row appended, or to one appended earlier in its row.
NewActor(pairs, k) == FirstOf(pairs, k) = k
ReusedOfEarlierRow(pairs, k) ==
    FirstOf(pairs, k) < k /\ pairs[FirstOf(pairs, k)].row < pairs[k].row
ReusedOfSameRow(pairs, k) ==
    FirstOf(pairs, k) < k /\ pairs[FirstOf(pairs, k)].row = pairs[k].row

\* Every actor node is the source of a link; the movie node of a row of
\* empty cast is the target of none; no link is from a node to itself.
LinkedNodes(r) ==
    LET d == d3Response[r]
        pairs == PairsDone(r)
    IN  /\ \A i \in NodesLabelled(d, "actor") :
              \E k \in 1..Len(d.Links) : d.Links[k].Source = i - 1
        /\ GraphBuilt(r) =>
              \A i \in 1..Len(result[r].Records) :
                  CastOf(result[r].Records[i]) = <<>> =>
                      /\ d.Nodes[MovieIndex(pairs, i) + 1]
                            = [Title |-> TitleOf(result[r].Records[i]), Label |-> "movie"]
                      /\ \A k \in 1..Len(d.Links) : d.Links[k].Target # MovieIndex(pairs, i)
        /\ \A k \in 1..Len(d.Links) : d.Links[k].Source # d.Links[k].Target

\* C20 as stated: each actor node is the source of a link, the movie node of
\* an empty cast is the target of none, no link has its source as target; a
\* link to a new actor has source above target, a link to a reused actor has
\* source below target.
C20_LinkShape ==
    \A r \in Reqs :
        InGraphLoop(r) =>
            LET d == d3Response[r]
                pairs == PairsDone(r)
            IN  /\ LinkedNodes(r)
                /\ Len(d.Links) = Len(pairs)
                /\ \A k \in 1..Len(pairs) :
                      /\ NewActor(pairs, k) => d.Links[k].Source > d.Links[k].Target
                      /\ ~NewActor(pairs, k) => d.Links[k].Source < d.Links[k].Target

\* C20, amended: as stated, but a link to a reused actor has source below
\* target only when the actor's node was appended for an earlier row; when
\* the name is repeated in the cast of one row, the node was appended after
\* the row's movie node and the link has source above target.
C20_LinkShapeByRow ==
    \A r \in Reqs :
        InGraphLoop(r) =>
            LET d == d3Response[r]
                pairs == PairsDone(r)
            IN  /\ LinkedNodes(r)
                /\ Len(d.Links) = Len(pairs)
                /\ \A k \in 1..Len(pairs) :
                      /\ NewActor(pairs, k) => d.Links[k].Source > d.Links[k].Target
                      /\ ReusedOfEarlierRow(pairs, k) => d.Links[k].Source < d.Links[k].Target
                      /\ ReusedOfSameRow(pairs, k) => d.Links[k].Source > d.Links[k].Target

\* A cast that names Tom Cruise twice, then a row
\* that names him again.
C20_Witness ==
    \E r \in Reqs :
        /\ Responded(r, "graph")
        /\ Len(result[r].Records) = 2
        /\ NamesOf(result[r].Records[1]) = <<"Tom Cruise", "Tom Cruise">>
        /\ NamesOf(result[r].Records[2]) = <<"Tom Cruise">>
        /\ d3Response[r].Links = <<[Source |-> 1, Target |-> 0], [Source |-> 1, Target |-> 0],
                                   [Source |-> 1, Target |-> 2]>>

\* ------------------------------------------------------- order of events
\* The body of request r holds at most one response, and holds it only when
\* the query was issued once, its result was received without an error and
\* the projection was built from all the records of the result.
WrittenInOrder(r) ==
    body[r] # <<>> =>
        /\ Len(body[r]) = 1
        /\ pc[r] = "done"
        /\ Len(queries[r]) = 1
        /\ ~result[r].isNil
        /\ ~err[r]
        /\ req[r].endpoint \in {"search", "movie", "graph"} =>
              rec[r] = Len(result[r].Records) + 1

\* A step writes the body of request r only once, into an empty body.
WrittenOnce(r) ==
    body'[r] # body[r] =>
        \/ body[r] = <<>> /\ Len(body'[r]) = 1
        \/ body'[r] = <<>> /\ pc'[r] = "idle"

\* A step of the handler of request r reads a field of its result:
\* result.Records or result.Summary after ExecuteQuery has returned, or a
\* record of the loop.
ReadsResult(r) ==
    \/ pc[r] = "returned" /\ pc'[r] \in {"rows", "panic"}
    \/ pc[r] \in {"rows", "actors"} /\ pc'[r] \in {"rows", "actors", "panic"}

\* The events of every request in order, and the body written once.
EventsInOrder ==
    /\ [][\A r \in Reqs : WrittenOnce(r)]_vars
    /\ [](\A r \in Reqs : WrittenInOrder(r))

\* C21: for every endpoint and request the query is issued, its result
\* received, the projection built from all rows and then the body written;
\* the body is written at most once and only after the query succeeded, and
\* no field of the result is read in a run where the query failed.
C21_EventOrder ==
    /\ EventsInOrder
    /\ [][\A r \in Reqs : ReadsResult(r) => ~err[r]]_vars

\* ------------------------------------------------------------- zero rows
\* The query of request r has succeeded with a result without records.
ZeroRows(r) ==
    /\ pc[r] \notin {"idle", "query"}
    /\ req[r].endpoint \in {"search", "movie", "graph"}
    /\ ~result[r].isNil
    /\ ~err[r]
    /\ result[r].Records = <<>>

\* What the handler of request r writes for a result without records.
ZeroRowsBody(r) ==
    CASE req[r].endpoint = "search" -> "[]\n"
      [] req[r].endpoint = "movie" -> "{\"released\":0}\n"
      [] OTHER -> "{\"nodes\":null,\"links\":null}\n"

ZeroRowsWriteFailure(r) ==
    CASE req[r].endpoint = "search" -> "error writing search response"
      [] req[r].endpoint = "movie" -> "error writing movie response"
      [] OTHER -> "error writing graph response"

\* C22: a query that succeeds with zero rows is no error for any projection:
\* the handler neither panics nor logs a query error, and it writes the
\* empty list (search), a movie of empty title without cast (detail), a
\* response without node and link (graph); only the write itself may fail.
C22_ZeroRowsWritten ==
    \A r \in Reqs :
        ZeroRows(r) =>
            /\ pc[r] \in {"returned", "rows", "done"}
            /\ movies[r] = <<>>
            /\ movie[r] = ZeroMovie
            /\ d3Response[r] = ZeroD3Response
            /\ pc[r] = "done" =>
                  \/ body[r] = <<ZeroRowsBody(r)>> /\ logged[r] = <<>>
                  \/ body[r] = <<>> /\ logged[r] = <<ZeroRowsWriteFailure(r)>>

\* The detail of a title no movie has: a movie of empty title, no cast.
C22_Witness ==
    \E r \in Reqs :
        /\ ZeroRows(r)
        /\ Responded(r, "movie")
        /\ body[r] = <<"{\"released\":0}\n">>

\* The search, and the graph, of a database that holds no movie.
ZeroRowsSearchWritten == \E r \in Reqs : ZeroRows(r) /\ Responded(r, "search")
ZeroRowsGraphWritten == \E r \in Reqs : ZeroRows(r) /\ Responded(r, "graph")

=============================================================================
